---- MODULE Spec2Model ----
(***************************************************************************)
(* Stock Hunter FastAPI gateway (src/fastapi-gateway/main.py).             *)
(*                                                                         *)
(* One inbound request at a time is followed from reception to delivery:   *)
(* requests share no state (there is no module-level mutable object in     *)
(* main.py besides the read-only KOTLIN_SERVICE_URL), so the interleaving  *)
(* of several requests adds no behaviour.                                  *)
(*                                                                         *)
(* Representation choices                                                  *)
(*  - a JSON value is a tagged tuple: Str, Num, Bool, Obj (a record),      *)
(*    Arr (a sequence);                                                    *)
(*  - a float field of the request is held in tenths (bbMultiplier 2.0 is  *)
(*    20, priceChangeMin -100.0 is -1000); marketCapMin/Max are held in    *)
(*    millions (the default 1000000000000 is 1000000);                     *)
(*  - an optional JSON member of the inbound payload is a sequence of      *)
(*    length 0 (absent) or 1 (present);                                    *)
(*  - the downstream HTTP body is a record of its text and of what         *)
(*    response.json() makes of it (parsed = <<>> when the text is not      *)
(*    JSON, else <<value>>);                                               *)
(*  - datetime.now().isoformat() is the token Timestamp;                   *)
(*  - the Korean message texts of main.py are given in English, TLA+       *)
(*    strings being ASCII; each is a definition named after its use.       *)
(***************************************************************************)
EXTENDS Integers, Sequences, FiniteSets, TLC

VARIABLES
    pc,        \* "idle" | "received" | "handling" | "responded"
    endpoint,  \* route of the request in progress
    req,       \* its JSON payload (defaults filled in), NoBody for a GET
    calls,     \* downstream HTTP calls made for the request in progress
    down,      \* what the downstream call produced
    resp       \* the response handed to the client

vars == <<pc, endpoint, req, calls, down, resp>>

\* Number of members of the inbound screening payload that differ from the
\* model's defaults.
MaxOverrides == 1

---------------------------------------------------------------------------
\* JSON values

Str(s) == <<"str", s>>
Num(n) == <<"num", n>>
Bool(b) == <<"bool", b>>
Obj(r) == <<"obj", r>>
Arr(s) == <<"arr", s>>

IsObj(j) == j[1] = "obj"
HasKey(j, k) == IsObj(j) /\ k \in DOMAIN j[2]

Timestamp == Str("datetime.now().isoformat()")

NoBody == <<>>
NoCall == [kind |-> "none"]
NoResp == [status |-> 0, body |-> <<"none">>]

---------------------------------------------------------------------------
\* Request models

\* ScreeningRequest with every default of the class, and credentials given.
DefaultScreeningRequest ==
    [ appKey |-> <<"PSKEY">>, appSecret |-> <<"SECRET">>, isProduction |-> FALSE,
      ma60Enabled |-> FALSE, ma60Min |-> 95, ma60Max |-> 105,
      ma112Enabled |-> TRUE, ma112Min |-> 95, ma112Max |-> 105,
      ma224Enabled |-> FALSE, ma224Min |-> 95, ma224Max |-> 105,
      bbEnabled |-> FALSE, bbPeriod |-> 20, bbMultiplier |-> 20,
      bbPosition |-> "all", bbUpperBreak |-> FALSE, bbLowerBreak |-> FALSE,
      volumeEnabled |-> FALSE, volumeMultiple |-> 15,
      priceChangeEnabled |-> FALSE, priceChangeMin |-> -1000, priceChangeMax |-> 1000,
      excludeETF |-> TRUE, excludeETN |-> TRUE, excludeManagement |-> FALSE,
      marketCapEnabled |-> FALSE, marketCapMin |-> 0, marketCapMax |-> 1000000,
      perEnabled |-> FALSE, perMin |-> 0, perMax |-> 300,
      maAlignment |-> FALSE,
      targetCodes |-> <<>> ]

\* Declaration order of the fields (the order pydantic reports errors in).
ScreeningFields ==
    << "appKey", "appSecret", "isProduction",
       "ma60Enabled", "ma60Min", "ma60Max",
       "ma112Enabled", "ma112Min", "ma112Max",
       "ma224Enabled", "ma224Min", "ma224Max",
       "bbEnabled", "bbPeriod", "bbMultiplier", "bbPosition",
       "bbUpperBreak", "bbLowerBreak",
       "volumeEnabled", "volumeMultiple",
       "priceChangeEnabled", "priceChangeMin", "priceChangeMax",
       "excludeETF", "excludeETN", "excludeManagement",
       "marketCapEnabled", "marketCapMin", "marketCapMax",
       "perEnabled", "perMin", "perMax",
       "maAlignment", "targetCodes" >>

CredentialFields == <<"appKey", "appSecret">>

EnabledFlags ==
    { "ma60Enabled", "ma112Enabled", "ma224Enabled", "bbEnabled",
      "volumeEnabled", "priceChangeEnabled", "marketCapEnabled", "perEnabled" }

MaFields == {"ma60Min", "ma60Max", "ma112Min", "ma112Max", "ma224Min", "ma224Max"}
PriceChangeFields == {"priceChangeMin", "priceChangeMax"}
MarketCapFields == {"marketCapMin", "marketCapMax"}
PerFields == {"perMin", "perMax"}

\* appKey: str = Field(...): required; no min_length is declared.
RequiredStr(v) == v # <<>>

\* Field(95, ge=0, le=200)
MaPercentOK(v) == v >= 0 /\ v <= 200

BbPeriodOK_NoLowerBound(v) == v <= 100

\* Field(20, ge=5, le=100)
BbPeriodOK(v) == v >= 5 /\ v <= 100

\* Field(2.0, ge=0.5, le=5.0), in tenths
BbMultiplierOK(v) == v >= 5 /\ v <= 50

\* Field("all", pattern="^(all|upper|middle|lower)$")
BbPositionOK(v) == v \in {"all", "upper", "middle", "lower"}

\* Field(1.5, ge=0.1, le=10.0), in tenths
VolumeMultipleOK(v) == v >= 1 /\ v <= 100

\* Field(-100.0, ge=-100.0, le=100.0), in tenths
PriceChangeOK(v) == v >= -1000 /\ v <= 1000

\* Field(0, ge=0), in millions
MarketCapOK(v) == v >= 0

\* Field(0.0, ge=0), in tenths
PerOK(v) == v >= 0

\* The constraint the class declares for field f, applied to value v.
FieldOK(f, v) ==
    CASE f \in {"appKey", "appSecret"} -> RequiredStr(v)
      [] f \in MaFields -> MaPercentOK(v)
      [] f = "bbPeriod" -> BbPeriodOK(v)
      [] f = "bbMultiplier" -> BbMultiplierOK(v)
      [] f = "bbPosition" -> BbPositionOK(v)
      [] f = "volumeMultiple" -> VolumeMultipleOK(v)
      [] f \in PriceChangeFields -> PriceChangeOK(v)
      [] f \in MarketCapFields -> MarketCapOK(v)
      [] f \in PerFields -> PerOK(v)
      [] OTHER -> TRUE

\* The enable flag of the family a threshold field belongs to.
FamilyFlag(f) ==
    CASE f \in {"ma60Min", "ma60Max"} -> "ma60Enabled"
      [] f \in {"ma112Min", "ma112Max"} -> "ma112Enabled"
      [] f \in {"ma224Min", "ma224Max"} -> "ma224Enabled"
      [] f \in {"bbPeriod", "bbMultiplier", "bbPosition"} -> "bbEnabled"
      [] f = "volumeMultiple" -> "volumeEnabled"
      [] f \in PriceChangeFields -> "priceChangeEnabled"
      [] f \in MarketCapFields -> "marketCapEnabled"
      [] f \in PerFields -> "perEnabled"
      [] OTHER -> "none"

ScreeningRequest_SkipDisabled(r) ==
    SelectSeq(ScreeningFields,
              LAMBDA f : /\ ~FieldOK(f, r[f])
                         /\ (FamilyFlag(f) = "none" \/ r[FamilyFlag(f)]))

\* Validation of a ScreeningRequest: the fields whose constraint fails, in
\* declaration order.  Every field is checked; no check looks at a flag.
ScreeningRequest(r) ==
    SelectSeq(ScreeningFields, LAMBDA f : ~FieldOK(f, r[f]))

\* Validation of a CredentialsRequest: both members are required strings.
CredentialsRequest(r) ==
    SelectSeq(CredentialFields, LAMBDA f : ~RequiredStr(r[f]))

---------------------------------------------------------------------------
\* Inbound payloads

CredentialValues == { <<>>, <<"">>, <<"PSKEY">> }

Candidates(f) ==
    CASE f \in {"appKey", "appSecret"} -> CredentialValues
      [] f \in MaFields -> {-1, 0, 200, 201, 500}
      [] f = "bbPeriod" -> {3, 4, 5, 100, 101}
      [] f = "bbMultiplier" -> {4, 5, 50, 51}
      [] f = "bbPosition" -> {"upper", "middle", "lower", "ALL", "", "top"}
      [] f = "volumeMultiple" -> {0, 1, 100, 101}
      [] f \in PriceChangeFields -> {-1001, -1000, 1000, 1001}
      [] f \in MarketCapFields -> {-1, 0, 5000}
      [] f \in PerFields -> {-1, 0, 155}
      [] f = "targetCodes" -> { <<>>, <<"005930">> }
      [] OTHER -> BOOLEAN

FieldSet == {ScreeningFields[i] : i \in 1..Len(ScreeningFields)}

RECURSIVE ScreeningPayloads(_)
ScreeningPayloads(n) ==
    IF n = 0 THEN {DefaultScreeningRequest}
    ELSE LET P == ScreeningPayloads(n - 1)
         IN  P \cup UNION { UNION { {[p EXCEPT ![f] = v] : v \in Candidates(f)}
                                    : f \in FieldSet } : p \in P }

CredentialPayloads ==
    [appKey : CredentialValues, appSecret : CredentialValues]

Endpoints == {"root", "api", "health", "screen", "validate-credentials", "stock-codes"}

Payloads(ep) ==
    CASE ep = "screen" -> ScreeningPayloads(MaxOverrides)
      [] ep = "validate-credentials" -> CredentialPayloads
      [] OTHER -> {NoBody}

---------------------------------------------------------------------------
\* Downstream engine (black box)

\* httpx exception classes a call can raise.  TimeoutException is the base
\* of the four *Timeout classes; ConnectError is a NetworkError.
TimeoutExceptions == {"ConnectTimeout", "ReadTimeout", "WriteTimeout", "PoolTimeout"}
TransportExceptions == TimeoutExceptions \cup {"ConnectError", "ReadError", "RemoteProtocolError"}

DownstreamStatuses == {200, 201, 400, 401, 404, 500, 503}

DownstreamBodies ==
    { [text |-> "", parsed |-> <<>>],
      [text |-> "<html>Bad Gateway</html>", parsed |-> <<>>],
      [text |-> "{\"matchedCount\":7,\"results\":[]}",
       parsed |-> << Obj([matchedCount |-> Num(7), results |-> Arr(<<>>)]) >>],
      [text |-> "{\"message\":\"invalid appkey\"}",
       parsed |-> << Obj([message |-> Str("invalid appkey")]) >>],
      [text |-> "{\"error\":\"rate limited\"}",
       parsed |-> << Obj([error |-> Str("rate limited")]) >>],
      [text |-> "[\"005930\",\"000660\"]",
       parsed |-> << Arr(<<Str("005930"), Str("000660")>>) >>] }

DownstreamOutcomes ==
    { [kind |-> "exception", exc |-> e] : e \in TransportExceptions }
    \cup { [kind |-> "response", status |-> s, body |-> b]
             : s \in DownstreamStatuses, b \in DownstreamBodies }

---------------------------------------------------------------------------
\* Message texts

ScreenTimeoutDetail == "screening request timed out; retry shortly"
ScreenConnectDetail == "cannot connect to the screening service"
ScreenErrorPrefix == "error during screening: "
CredentialsValidMessage == "authentication succeeded"
CredentialsInvalidMessage == "authentication failed"
CredentialsErrorPrefix == "error during credential validation: "
StockCodesFailedDetail == "stock code lookup failed"
StockCodesErrorPrefix == "error during stock code lookup: "

---------------------------------------------------------------------------
\* Handler results and exception handlers

Return(v) == [kind |-> "return", value |-> v]
Raise(cls, code, detail) ==
    [kind |-> "raise", cls |-> cls, status_code |-> code, detail |-> detail]

HTTPException(code, detail) == Raise("HTTPException", code, detail)

\* str(e) of a raised exception
ExcStr(e) ==
    IF e.cls = "HTTPException"
    THEN ToString(e.status_code) \o ": " \o e.detail[2]
    ELSE e.cls

\* response.json()
Json(o) ==
    IF o.body.parsed = <<>>
    THEN Raise("JSONDecodeError", 0, Str(""))
    ELSE Return(o.body.parsed[1])

http_exception_handler(exc) ==
    [status |-> exc.status_code,
     body |-> Obj([error |-> exc.detail, timestamp |-> Timestamp])]

general_exception_handler(exc) ==
    [status |-> 500,
     body |-> Obj([error |-> Str("Internal server error"),
                   detail |-> Str(ExcStr(exc)),
                   timestamp |-> Timestamp])]

\* FastAPI's built-in handler of RequestValidationError (main.py registers
\* none of its own): 422 and {"detail": [{"loc": ["body", field], ...}]}.
request_validation_exception_handler(errs) ==
    [status |-> 422,
     body |-> Obj([detail |->
                Arr([i \in 1..Len(errs) |->
                       Obj([loc |-> Arr(<<Str("body"), Str(errs[i])>>)])])])]

\* What the application does with the result of a route function.
Respond(r) ==
    IF r.kind = "return" THEN [status |-> 200, body |-> r.value]
    ELSE IF r.cls = "HTTPException" THEN http_exception_handler(r)
    ELSE general_exception_handler(r)

---------------------------------------------------------------------------
\* POST /api/v1/screen

screen_stocks_try_NoTextCheck(o) ==
    IF o.kind = "exception" THEN Raise(o.exc, 0, Str(""))
    ELSE IF Json(o).kind = "raise" THEN Json(o)
    ELSE IF o.status # 200 THEN HTTPException(o.status, Json(o).value)
    ELSE IF ~IsObj(Json(o).value) THEN Raise("AttributeError", 0, Str(""))
    ELSE Return(Json(o).value)

\* The body of the try block, given what the downstream call produced.
screen_stocks_try(o) ==
    IF o.kind = "exception" THEN Raise(o.exc, 0, Str(""))
    ELSE IF o.status # 200
    THEN IF o.body.text # ""
         THEN IF Json(o).kind = "raise" THEN Json(o)
              ELSE HTTPException(o.status, Json(o).value)
         ELSE HTTPException(o.status, Obj([error |-> Str("Unknown error")]))
    ELSE IF Json(o).kind = "raise" THEN Json(o)
    ELSE IF ~IsObj(Json(o).value)
    THEN Raise("AttributeError", 0, Str(""))      \* result.get on a non-dict
    ELSE Return(Json(o).value)

screen_stocks_OnlyExceptException(o) ==
    LET r == screen_stocks_try(o)
    IN  IF r.kind = "return" THEN r
        ELSE HTTPException(500, Str(ScreenErrorPrefix \o ExcStr(r)))

\* The handler with its except clauses, in their order.
screen_stocks(o) ==
    LET r == screen_stocks_try(o)
    IN  IF r.kind = "return" THEN r
        ELSE IF r.cls \in TimeoutExceptions
        THEN HTTPException(504, Str(ScreenTimeoutDetail))
        ELSE IF r.cls = "ConnectError"
        THEN HTTPException(503, Str(ScreenConnectDetail))
        ELSE IF r.cls = "HTTPException" THEN r
        ELSE HTTPException(500, Str(ScreenErrorPrefix \o ExcStr(r)))

---------------------------------------------------------------------------
\* POST /api/v1/validate-credentials

\* The body of the try block.  response.json() runs before the status is
\* looked at; result.get needs a dict.
validate_credentials_try(o) ==
    IF o.kind = "exception" THEN Raise(o.exc, 0, Str(""))
    ELSE IF Json(o).kind = "raise" THEN Json(o)
    ELSE IF o.status = 200
    THEN Return(Obj([valid |-> Bool(TRUE), message |-> Str(CredentialsValidMessage)]))
    ELSE IF ~IsObj(Json(o).value)
    THEN Raise("AttributeError", 0, Str(""))
    ELSE Return(Obj([valid |-> Bool(FALSE),
                     message |-> IF HasKey(Json(o).value, "message")
                                 THEN Json(o).value[2].message
                                 ELSE Str(CredentialsInvalidMessage)]))

\* The handler: one except clause, for Exception.
validate_credentials(o) ==
    LET r == validate_credentials_try(o)
    IN  IF r.kind = "return" THEN r
        ELSE HTTPException(500, Str(CredentialsErrorPrefix \o ExcStr(r)))

---------------------------------------------------------------------------
\* GET /api/v1/stock-codes

get_stock_codes_try(o) ==
    IF o.kind = "exception" THEN Raise(o.exc, 0, Str(""))
    ELSE IF o.status # 200
    THEN HTTPException(o.status, Str(StockCodesFailedDetail))
    ELSE Json(o)

\* The handler: one except clause, for Exception, which HTTPException is.
get_stock_codes(o) ==
    LET r == get_stock_codes_try(o)
    IN  IF r.kind = "return" THEN r
        ELSE HTTPException(500, Str(StockCodesErrorPrefix \o ExcStr(r)))

---------------------------------------------------------------------------
\* GET /health

kotlin_healthy_Not5xx(o) == o.kind = "response" /\ o.status < 500

\* response.status_code == 200, False when the probe raised
kotlin_healthy(o) == o.kind = "response" /\ o.status = 200

health_check(o) ==
    Return(Obj([status |-> Str(IF kotlin_healthy(o) THEN "healthy" ELSE "degraded"),
                services |->
                  Obj([gateway |-> Str("healthy"),
                       kotlin_screener |->
                         Str(IF kotlin_healthy(o) THEN "healthy" ELSE "unhealthy")]),
                timestamp |-> Timestamp]))

---------------------------------------------------------------------------
\* GET / and GET /api

\* What the handler finds on disk: the page next to main.py, the page in the
\* parent directory, no page, or a page that exists and cannot be read.
HtmlFiles == {"docker", "local", "missing", "unreadable"}

root(f) ==
    CASE f \in {"docker", "local"} -> Return(<<"html", "stock_screener.html">>)
      [] f = "missing" -> Return(<<"html", "fallback page">>)
      [] OTHER -> Raise("OSError", 0, Str(""))

api_info ==
    Return(Obj([service |-> Str("Stock Hunter API Gateway"),
                version |-> Str("1.0.0"),
                status |-> Str("running"),
                timestamp |-> Timestamp]))

---------------------------------------------------------------------------
\* Actions

Init ==
    /\ pc = "idle"
    /\ endpoint = "none"
    /\ req = NoBody
    /\ calls = 0
    /\ down = NoCall
    /\ resp = NoResp

\* A client request arrives.
Receive ==
    /\ pc = "idle"
    /\ \E ep \in Endpoints :
         \E p \in Payloads(ep) :
            /\ endpoint' = ep
            /\ req' = p
    /\ pc' = "received"
    /\ UNCHANGED <<calls, down, resp>>

\* FastAPI builds the route's body parameter from the payload before it
\* calls the route function; a failure is answered without calling it.
RequestErrors ==
    CASE endpoint = "screen" -> ScreeningRequest(req)
      [] endpoint = "validate-credentials" -> CredentialsRequest(req)
      [] OTHER -> <<>>

RequestValidation ==
    /\ pc = "received"
    /\ IF RequestErrors # <<>>
       THEN /\ resp' = request_validation_exception_handler(RequestErrors)
            /\ pc' = "responded"
       ELSE /\ pc' = "handling"
            /\ UNCHANGED resp
    /\ UNCHANGED <<endpoint, req, calls, down>>

ScreenStocks ==
    /\ pc = "handling"
    /\ endpoint = "screen"
    /\ \E o \in DownstreamOutcomes :
         /\ down' = o
         /\ resp' = Respond(screen_stocks(o))
    /\ calls' = calls + 1
    /\ pc' = "responded"
    /\ UNCHANGED <<endpoint, req>>

ValidateCredentials ==
    /\ pc = "handling"
    /\ endpoint = "validate-credentials"
    /\ \E o \in DownstreamOutcomes :
         /\ down' = o
         /\ resp' = Respond(validate_credentials(o))
    /\ calls' = calls + 1
    /\ pc' = "responded"
    /\ UNCHANGED <<endpoint, req>>

GetStockCodes ==
    /\ pc = "handling"
    /\ endpoint = "stock-codes"
    /\ \E o \in DownstreamOutcomes :
         /\ down' = o
         /\ resp' = Respond(get_stock_codes(o))
    /\ calls' = calls + 1
    /\ pc' = "responded"
    /\ UNCHANGED <<endpoint, req>>

HealthCheck ==
    /\ pc = "handling"
    /\ endpoint = "health"
    /\ \E o \in DownstreamOutcomes :
         /\ down' = o
         /\ resp' = Respond(health_check(o))
    /\ calls' = calls + 1
    /\ pc' = "responded"
    /\ UNCHANGED <<endpoint, req>>

Root ==
    /\ pc = "handling"
    /\ endpoint = "root"
    /\ \E f \in HtmlFiles : resp' = Respond(root(f))
    /\ pc' = "responded"
    /\ UNCHANGED <<endpoint, req, calls, down>>

ApiInfo ==
    /\ pc = "handling"
    /\ endpoint = "api"
    /\ resp' = Respond(api_info)
    /\ pc' = "responded"
    /\ UNCHANGED <<endpoint, req, calls, down>>

\* The response is sent; everything request-scoped is dropped.
Deliver ==
    /\ pc = "responded"
    /\ pc' = "idle"
    /\ endpoint' = "none"
    /\ req' = NoBody
    /\ calls' = 0
    /\ down' = NoCall
    /\ resp' = NoResp

Next ==
    \/ Receive
    \/ RequestValidation
    \/ ScreenStocks
    \/ ValidateCredentials
    \/ GetStockCodes
    \/ HealthCheck
    \/ Root
    \/ ApiInfo
    \/ Deliver

Spec == Init /\ [][Next]_vars

---------------------------------------------------------------------------
\* Properties

Responded(ep) == pc = "responded" /\ endpoint = ep
Answered(ep) == Responded(ep) /\ down.kind = "response"
ClientError == resp.status >= 400 /\ resp.status <= 499

\* The bounds the field table of the specification declares (section 3),
\* floats in tenths.
DeclaredBoundViolated(f, v) ==
    CASE f \in MaFields -> v < 0 \/ v > 200
      [] f = "bbPeriod" -> v < 5 \/ v > 100
      [] f = "bbMultiplier" -> v < 5 \/ v > 50
      [] f = "bbPosition" -> v \notin {"all", "upper", "middle", "lower"}
      [] f = "volumeMultiple" -> v < 1 \/ v > 100
      [] f \in PriceChangeFields -> v < -1000 \/ v > 1000
      [] f \in MarketCapFields -> v < 0
      [] f \in PerFields -> v < 0
      [] OTHER -> FALSE

OutOfBoundFields(r) == {f \in FieldSet : DeclaredBoundViolated(f, r[f])}

\* The fields a validation response names: the last element of each loc.
NamedFields(rsp) ==
    IF HasKey(rsp.body, "detail") /\ rsp.body[2].detail[1] = "arr"
    THEN LET errs == rsp.body[2].detail[2]
         IN  {errs[i][2].loc[2][2][2] : i \in 1..Len(errs)}
    ELSE {}

\* C1: a screening request with a field outside its declared bound never
\* reaches the downstream engine, and its response is a 4xx that names every
\* offending field.
C1_OutOfBoundRejected ==
    (endpoint = "screen" /\ OutOfBoundFields(req) # {}) =>
        /\ pc # "handling"
        /\ calls = 0
        /\ down = NoCall
        /\ pc = "responded" =>
              /\ ClientError
              /\ OutOfBoundFields(req) \subseteq NamedFields(resp)

C1_Witness ==
    /\ Responded("screen")
    /\ req.bbPeriod = 3
    /\ resp.status = 422
    /\ "bbPeriod" \in NamedFields(resp)
    /\ calls = 0

\* C2: on /api/v1/screen a timeout of the downstream call is answered 504
\* with the fixed timeout message, and a connection failure is answered 503.
C2_TimeoutAndConnect ==
    (Responded("screen") /\ down.kind = "exception") =>
        /\ down.exc \in TimeoutExceptions =>
              /\ resp.status = 504
              /\ resp.body[2].error = Str(ScreenTimeoutDetail)
        /\ down.exc = "ConnectError" =>
              /\ resp.status = 503
              /\ resp.body[2].error = Str(ScreenConnectDetail)

C2_Witness ==
    /\ Responded("screen")
    /\ down.kind = "exception"
    /\ down.exc = "ReadTimeout"
    /\ resp.status = 504

\* The client receives exactly the document the downstream engine sent.
SameBody == down.body.parsed # <<>> /\ resp.body = down.body.parsed[1]

C4_SuccessTransparent ==
    (Answered("screen") /\ down.status = 200) =>
        /\ resp.status = 200
        /\ SameBody

\* C5: on /api/v1/stock-codes a downstream status other than 200 is answered
\* with that status and the fixed message; 500 is answered only when the
\* downstream call raised or its 200 body could not be read.
C5_StockCodesStatus ==
    Answered("stock-codes") =>
        /\ down.status # 200 =>
              /\ resp.status = down.status
              /\ resp.body[2].error = Str(StockCodesFailedDetail)
        /\ resp.status = 500 =>
              \/ down.status = 500
              \/ down.status = 200 /\ down.body.parsed = <<>>

\* C6: on /api/v1/validate-credentials every downstream response is answered
\* 200: valid for a downstream 200, else invalid with the downstream message
\* or the default text.
C6_CredentialsAlways200 ==
    Answered("validate-credentials") =>
        /\ resp.status = 200
        /\ HasKey(resp.body, "valid")
        /\ resp.body[2].valid = Bool(down.status = 200)
        /\ down.status # 200 =>
              resp.body[2].message =
                 IF down.body.parsed # <<>> /\ HasKey(down.body.parsed[1], "message")
                 THEN down.body.parsed[1][2].message
                 ELSE Str(CredentialsInvalidMessage)

\* C7: /health is always answered 200 after exactly one probe, reporting
\* healthy/healthy exactly when the probe returned 200 and
\* degraded/unhealthy otherwise, the gateway itself healthy in both cases.
C7_HealthComposite ==
    Responded("health") =>
        /\ resp.status = 200
        /\ calls = 1
        /\ resp.body[2].services[2].gateway = Str("healthy")
        /\ IF down.kind = "response" /\ down.status = 200
           THEN /\ resp.body[2].status = Str("healthy")
                /\ resp.body[2].services[2].kotlin_screener = Str("healthy")
           ELSE /\ resp.body[2].status = Str("degraded")
                /\ resp.body[2].services[2].kotlin_screener = Str("unhealthy")

C7_Witness ==
    /\ Responded("health")
    /\ down.kind = "response"
    /\ down.status = 500
    /\ resp.status = 200
    /\ resp.body[2].status = Str("degraded")
    /\ resp.body[2].services[2].kotlin_screener = Str("unhealthy")

\* C8: every error response is a JSON object with an error or detail member
\* and a timestamp member.
C8_ErrorEnvelope ==
    (pc = "responded" /\ resp.status >= 400) =>
        /\ HasKey(resp.body, "error") \/ HasKey(resp.body, "detail")
        /\ HasKey(resp.body, "timestamp")

Blank(v) == v = <<>> \/ v = <<"">>

\* C9: a screening or credentials request whose appKey or appSecret is
\* missing or empty is rejected as a client error without a downstream call.
C9_CredentialsRequired ==
    (/\ endpoint \in {"screen", "validate-credentials"}
     /\ (Blank(req.appKey) \/ Blank(req.appSecret))) =>
        /\ pc # "handling"
        /\ calls = 0
        /\ pc = "responded" => ClientError

WithFlags(r, F) == [f \in DOMAIN r |-> IF f \in EnabledFlags THEN F[f] ELSE r[f]]

\* C10: whether a screening request is accepted does not depend on its
\* enable flags: a request that passed validation still validates, and a
\* request that was rejected is still invalid, under every other setting of
\* the enable flags.
C10_FlagsIrrelevant ==
    /\ (endpoint = "screen" /\ pc = "handling") =>
          \A F \in [EnabledFlags -> BOOLEAN] :
             ScreeningRequest(WithFlags(req, F)) = <<>>
    /\ (Responded("screen") /\ calls = 0) =>
          /\ resp.status = 422
          /\ \A F \in [EnabledFlags -> BOOLEAN] :
                ScreeningRequest(WithFlags(req, F)) # <<>>
    /\ (Responded("screen") /\ calls # 0) => resp.status # 422

C10_Witness ==
    /\ Responded("screen")
    /\ ~req.ma60Enabled
    /\ req.ma60Min = 500
    /\ resp.status = 422
    /\ calls = 0

====
